---------------------------- MODULE Spec2Model ----------------------------
(***************************************************************************)
(* The price-driven yield and cache engine of the SCHD dividend            *)
(* calculator (src/App.tsx, the App component of lines 984-1528).          *)
(*                                                                         *)
(* JavaScript values are modelled as records [t, n, d, s]: t is the type   *)
(* tag, n/d an exact rational in lowest terms for a number, s the          *)
(* characters of a string.  Text (localStorage items, input values) is a   *)
(* sequence of one-character strings, so that parseFloat, parseInt,        *)
(* Number() and toString() are computed character by character.            *)
(***************************************************************************)
EXTENDS Integers, Sequences, FiniteSets, TLC

\* ------------------------------------------------------------------ bounds
\* Largest number of clock advances in one behaviour.
MaxTicks == 1
\* Largest number of page loads (mounts of App) in one behaviour.
MaxLoads == 2
\* Largest number of invocations of the quote proxy in one behaviour.
MaxInvocations == 2
\* Largest number of changes of the number the ticker shows in one behaviour.
MaxValueChanges == 2
\* Largest number of advances of performance.now() in one behaviour.
MaxAdvances == 3

\* -------------------------------------------------------- rational numbers
\* (Values that are used more than once are passed as parameters rather than
\* named in a LET, which keeps the expression tree TLC builds small.)
Abs(x) == IF x < 0 THEN -x ELSE x

RECURSIVE Gcd(_, _)
Gcd(a, b) == IF b = 0 THEN a ELSE Gcd(b, a % b)

Reduced(n, d, g) == [t |-> "num", n |-> n \div g, d |-> d \div g, s |-> <<>>]

\* A JavaScript number n/d (d > 0), kept in lowest terms.
Num(n, d) == Reduced(n, d, Gcd(Abs(n), d))

Whole(n) == [t |-> "num", n |-> n, d |-> 1, s |-> <<>>]
NaN == [t |-> "nan", n |-> 0, d |-> 1, s |-> <<>>]
Undefined == [t |-> "undef", n |-> 0, d |-> 1, s |-> <<>>]
Null == [t |-> "null", n |-> 0, d |-> 1, s |-> <<>>]
Str(chars) == [t |-> "str", n |-> 0, d |-> 1, s |-> chars]

IsNum(v) == v.t = "num"

\* ------------------------------------------------------------------- text
Digits == {"0", "1", "2", "3", "4", "5", "6", "7", "8", "9"}

DigitVal(c) ==
    CASE c = "0" -> 0 [] c = "1" -> 1 [] c = "2" -> 2 [] c = "3" -> 3
      [] c = "4" -> 4 [] c = "5" -> 5 [] c = "6" -> 6 [] c = "7" -> 7
      [] c = "8" -> 8 [] c = "9" -> 9

DigitChar(k) ==
    CASE k = 0 -> "0" [] k = 1 -> "1" [] k = 2 -> "2" [] k = 3 -> "3"
      [] k = 4 -> "4" [] k = 5 -> "5" [] k = 6 -> "6" [] k = 7 -> "7"
      [] k = 8 -> "8" [] k = 9 -> "9"

RECURSIVE Pow10(_)
Pow10(k) == IF k = 0 THEN 1 ELSE 10 * Pow10(k - 1)

\* The length of the longest run of digits of chars from position i.
RECURSIVE DigitRun(_, _)
DigitRun(chars, i) ==
    IF i <= Len(chars) /\ chars[i] \in Digits
    THEN 1 + DigitRun(chars, i + 1)
    ELSE 0

\* The value of the digits chars[i .. i+k-1].
RECURSIVE DigitsValue(_, _, _)
DigitsValue(chars, i, k) ==
    IF k = 0 THEN 0
    ELSE 10 * DigitsValue(chars, i, k - 1) + DigitVal(chars[i + k - 1])

\* Leading white space is skipped by parseFloat, parseInt and Number().
RECURSIVE SkipSpace(_, _)
SkipSpace(chars, i) ==
    IF i <= Len(chars) /\ chars[i] = " " THEN SkipSpace(chars, i + 1) ELSE i

IsAt(chars, i, c) == i <= Len(chars) /\ chars[i] = c

\* The position after an optional sign at i.
AfterSign(chars, i) == IF IsAt(chars, i, "-") \/ IsAt(chars, i, "+") THEN i + 1 ELSE i

\* The number of fraction digits after a "." at position j (0: no ".").
FracRun(chars, j) == IF IsAt(chars, j, ".") THEN DigitRun(chars, j + 1) ELSE 0

Signed(neg, mag, den) == Num(IF neg THEN -mag ELSE mag, den)

\* The decimal with ki digits from i1, and kf digits after the ".".
DecimalValue(chars, neg, i1, ki, kf) ==
    IF ki = 0 /\ kf = 0 THEN NaN
    ELSE Signed(neg,
                DigitsValue(chars, i1, ki) * Pow10(kf)
                    + DigitsValue(chars, i1 + ki + 1, kf),
                Pow10(kf))

DecimalDigits(chars, neg, i1, ki) ==
    DecimalValue(chars, neg, i1, ki, FracRun(chars, i1 + ki))

DecimalFrom(chars, i0) ==
    DecimalDigits(chars, IsAt(chars, i0, "-"), AfterSign(chars, i0),
                  DigitRun(chars, AfterSign(chars, i0)))

\* parseFloat(text): the longest decimal prefix ([+-] digits [. digits]),
\* NaN when there is none.  (Exponents and "Infinity" are not in any text
\* the model stores.)
parseFloat(chars) == DecimalFrom(chars, SkipSpace(chars, 1))

IntegerValue(chars, neg, i1, ki) ==
    IF ki = 0 THEN NaN
    ELSE Whole(IF neg THEN -DigitsValue(chars, i1, ki) ELSE DigitsValue(chars, i1, ki))

IntegerFrom(chars, i0) ==
    IntegerValue(chars, IsAt(chars, i0, "-"), AfterSign(chars, i0),
                 DigitRun(chars, AfterSign(chars, i0)))

\* parseInt(text, 10): the longest prefix [+-] digits, NaN when no digit.
parseInt(chars) == IntegerFrom(chars, SkipSpace(chars, 1))

\* The position after the decimal literal whose digits start at i1.
LiteralEnd(chars, i1, ki) ==
    IF IsAt(chars, i1 + ki, ".")
    THEN i1 + ki + 1 + DigitRun(chars, i1 + ki + 1)
    ELSE i1 + ki

LiteralStop(chars, i1) ==
    SkipSpace(chars, LiteralEnd(chars, i1, DigitRun(chars, i1)))

\* Number(text): the whole text must be a decimal literal; "" is 0.
StringToNumber(chars) ==
    IF SkipSpace(chars, 1) > Len(chars) THEN Whole(0)
    ELSE IF LiteralStop(chars, AfterSign(chars, SkipSpace(chars, 1))) <= Len(chars)
         THEN NaN
         ELSE parseFloat(chars)

\* The digits of the natural number n, most significant first.
RECURSIVE NatToChars(_)
NatToChars(n) ==
    IF n < 10 THEN <<DigitChar(n)>>
    ELSE Append(NatToChars(n \div 10), DigitChar(n % 10))

\* The fraction digits of r/d (0 <= r < d), d a divisor of a power of ten.
RECURSIVE FracChars(_, _)
FracChars(r, d) ==
    IF r = 0 THEN <<>>
    ELSE <<DigitChar((10 * r) \div d)>> \o FracChars((10 * r) % d, d)

PointAnd(frac) == IF frac = <<>> THEN <<>> ELSE <<".">> \o frac

\* Number.prototype.toString() of a finite decimal, String.prototype.toString()
\* of a string.
toString(v) ==
    CASE v.t = "str" -> v.s
      [] v.t = "nan" -> <<"N", "a", "N">>
      [] v.t = "num" ->
            (IF v.n < 0 THEN <<"-">> ELSE <<>>)
            \o NatToChars(Abs(v.n) \div v.d)
            \o PointAnd(FracChars(Abs(v.n) % v.d, v.d))

\* ------------------------------------------------------- JavaScript operators
\* ToNumber, as applied by the relational and arithmetic operators.
ToNumber(v) ==
    CASE v.t = "num" -> v
      [] v.t = "str" -> StringToNumber(v.s)
      [] v.t = "null" -> Whole(0)
      [] OTHER -> NaN

\* ToBoolean, as applied by if (...) and &&.
Truthy(v) ==
    CASE v.t = "num" -> v.n # 0
      [] v.t = "str" -> v.s # <<>>
      [] OTHER -> FALSE

NumLt(x, y) == IsNum(x) /\ IsNum(y) /\ x.n * y.d < y.n * x.d
NumLe(x, y) == IsNum(x) /\ IsNum(y) /\ x.n * y.d <= y.n * x.d
NumAdd(x, y) ==
    IF IsNum(x) /\ IsNum(y) THEN Num(x.n * y.d + y.n * x.d, x.d * y.d) ELSE NaN
NumSub(x, y) ==
    IF IsNum(x) /\ IsNum(y) THEN Num(x.n * y.d - y.n * x.d, x.d * y.d) ELSE NaN
NumMul(x, y) ==
    IF IsNum(x) /\ IsNum(y) THEN Num(x.n * y.n, x.d * y.d) ELSE NaN
\* For a divisor that is not zero: every division of the program has a
\* literal or a guarded positive divisor.
NumDiv(x, y) ==
    IF IsNum(x) /\ IsNum(y) /\ y.n # 0
    THEN Num((IF y.n < 0 THEN -1 ELSE 1) * x.n * y.d, x.d * Abs(y.n))
    ELSE NaN

\* a < b, a <= b, a > b: false when either side converts to NaN.
JsLt(a, b) == NumLt(ToNumber(a), ToNumber(b))
JsLe(a, b) == NumLe(ToNumber(a), ToNumber(b))
JsGt(a, b) == NumLt(ToNumber(b), ToNumber(a))
\* a + b (of numbers), a - b, a * b, a / b: NaN when either side is.
JsAdd(a, b) == NumAdd(ToNumber(a), ToNumber(b))
JsSub(a, b) == NumSub(ToNumber(a), ToNumber(b))
JsMul(a, b) == NumMul(ToNumber(a), ToNumber(b))
JsDiv(a, b) == NumDiv(ToNumber(a), ToNumber(b))

\* --------------------------------------------------------------- constants
CACHE_KEY_PRICE == "schd_price"
CACHE_KEY_TIMESTAMP == "schd_price_timestamp"
CACHE_DURATION_TRADING_MIN == 15
CACHE_DURATION_CLOSED_HRS == 24 * 60
\* 1000 * 60, the divisor of ageInMinutes.
MillisPerMinute == 1000 * 60

\* useState initial values.
InitialInvestment == Whole(10000)
InitialSharePrice == Num(7850, 100)
InitialDividendYield == Num(348, 100)
\* setSharePrice(27) of the catch block.
FallbackPrice == Whole(27)
PriceErrorMessage == "Could not fetch live price."
NoError == "null"

\* A calendar date; new Date("M/D/YYYY") is local midnight of that day.
Date(y, m, d) == [y |-> y, m |-> m, d |-> d]

\* new Date(a.date) <= today, for today at any time of the day `today`.
DateLe(a, today) ==
    \/ a.y < today.y
    \/ a.y = today.y /\ a.m < today.m
    \/ a.y = today.y /\ a.m = today.m /\ a.d <= today.d

Entry(m, d, y, cents) == [date |-> Date(y, m, d), dividend |-> Num(cents, 100)]

\* DIVIDEND_HISTORY as shipped, newest first.
ShippedHistory ==
    << Entry(6, 25, 2025, 26), Entry(3, 26, 2025, 25), Entry(12, 11, 2024, 26),
       Entry(9, 25, 2024, 25), Entry(6, 26, 2024, 27), Entry(3, 20, 2024, 20),
       Entry(12, 6, 2023, 25), Entry(9, 20, 2023, 22), Entry(6, 21, 2023, 22),
       Entry(3, 22, 2023, 20), Entry(12, 7, 2022, 23), Entry(9, 21, 2022, 21),
       Entry(6, 22, 2022, 23), Entry(3, 23, 2022, 17), Entry(12, 8, 2021, 21),
       Entry(9, 22, 2021, 20), Entry(6, 23, 2021, 18), Entry(3, 24, 2021, 17),
       Entry(12, 10, 2020, 20), Entry(9, 23, 2020, 18) >>

\* ------------------------------------------------------------------- state
VARIABLES
    investment,        \* useState<number>(10000)
    sharePrice,        \* useState<number>(78.50)
    dividendYield,     \* useState<number>(3.48)
    yieldMethod,       \* useState<YieldMethod>('forward')
    isPriceLoading,    \* useState<boolean>(true)
    priceError,        \* useState<string | null>(null)
    pastDividends,     \* useMemo(..., [])
    localStorage,      \* the two items of the persisted store (Null: no item)
    pc,                \* where the mount effect's asynchronous function stands
    response,          \* the Response the awaited fetch resolved with, while it is read
    fetchCalls,        \* calls of fetch('/.netlify/functions/get-schd-price') in this load
    priceSource,       \* which setSharePrice call wrote sharePrice last
    loads,             \* page loads so far
    now,               \* Date.now(), milliseconds
    ticks,             \* clock advances so far
    etBase,            \* US-Eastern minute of the week at now = StartMillis
    tzConversion,      \* how new Date(now.toLocaleString(..)) behaves in this browser
    today,             \* the calendar date of new Date(), for pastDividends
    dividendHistory,   \* DIVIDEND_HISTORY of this build
    \* src/netlify/functions/get-schd-price.js
    apiKey,            \* process.env.Finhub_API (Undefined: not set)
    handlerPc,         \* where exports.handler stands
    requestedUrl,      \* the url of the handler's call of fetch
    upstream,          \* how the data provider answered that call
    handlerResult,     \* what the handler returned
    invocations,       \* invocations of the handler so far
    \* src/service-worker.js
    swCache,           \* the response the cache holds for the price request
    network,           \* how the worker's fetch(event.request) settled
    responseOrigin,    \* where the response the page received came from
    \* src/NumberTicker.tsx
    value,             \* the prop value: the number to show
    displayValue,      \* useState(0)
    effectPending,     \* a render with a new value is committed, its effect not yet run
    generation,        \* runs of the effect so far (the latest run is the current one)
    targetOf,          \* the value each run of the effect closed over
    timeouts,          \* the runs whose setTimeout(startAnimation, delay) is pending
    animationId,       \* let animationId of the current run (0: not assigned)
    frames,            \* the pending requestAnimationFrame callbacks
    frameRequests,     \* handles requestAnimationFrame has returned so far
    startTime,         \* const startTime of each run (-1: startAnimation has not run)
    lastFrame,         \* currentTime of the last call of animate of each run (-1: none)
    onCompleteCalls,   \* calls of onComplete by each run
    performanceNow,    \* performance.now(), milliseconds
    valueChanges,      \* changes of the prop value so far
    advances           \* advances of performanceNow so far

vars ==
    << investment, sharePrice, dividendYield, yieldMethod, isPriceLoading,
       priceError, pastDividends, localStorage, pc, response, fetchCalls,
       priceSource, loads, now, ticks, etBase, tzConversion, today,
       dividendHistory, apiKey, handlerPc, requestedUrl, upstream,
       handlerResult, invocations, swCache, network, responseOrigin,
       value, displayValue, effectPending, generation, targetOf, timeouts,
       animationId, frames, frameRequests, startTime, lastFrame,
       onCompleteCalls, performanceNow, valueChanges, advances >>

componentVars ==
    << investment, sharePrice, dividendYield, yieldMethod, isPriceLoading,
       priceError, pastDividends >>

proxyVars == << apiKey, handlerPc, requestedUrl, upstream, handlerResult, invocations >>

\* What the component neither reads nor writes after its construction.
workerVars == << swCache, network, responseOrigin >>

tickerVars ==
    << value, displayValue, effectPending, generation, targetOf, timeouts,
       animationId, frames, frameRequests, startTime, lastFrame,
       onCompleteCalls, performanceNow, valueChanges, advances >>

environmentVars ==
    << etBase, tzConversion, today, dividendHistory, proxyVars, workerVars, tickerVars >>

\* ------------------------------------------------------------ market hours
\* The clock value of the first page load.
StartMillis == 100000 * 1000

MinutesPerDay == 24 * 60
MinutesPerWeek == 7 * MinutesPerDay

\* Minute of the US-Eastern week (0 = Sunday 00:00) at Date.now() = t.
EtMinuteOfWeek(t) == (etBase + ((t - StartMillis) \div MillisPerMinute)) % MinutesPerWeek

\* Mutant of MarketOpenAt: the closing minute counts as open (<=).
MarketOpenAtInclusiveClose(day, hour, minute) ==
    IF day = 0 \/ day = 6 THEN FALSE
    ELSE LET timeInMinutes == hour * 60 + minute
             marketOpen == 9 * 60 + 30
             marketClose == 16 * 60
         IN  timeInMinutes >= marketOpen /\ timeInMinutes <= marketClose

\* The body of the try block, from etDate on: getDay(), getHours(),
\* getMinutes() of a valid Date.
MarketOpenAt(day, hour, minute) ==
    IF day = 0 \/ day = 6 THEN FALSE
    ELSE LET timeInMinutes == hour * 60 + minute
             marketOpen == 9 * 60 + 30
             marketClose == 16 * 60
         IN  timeInMinutes >= marketOpen /\ timeInMinutes < marketClose

\* isMarketOpen().  A conversion that throws is caught and answered true; an
\* Invalid Date gives NaN for getDay/getHours/getMinutes, so that neither
\* day === 0 nor day === 6 holds and both comparisons of the return are false.
isMarketOpen ==
    CASE tzConversion = "throws" -> TRUE
      [] tzConversion = "invalid" -> FALSE
      [] OTHER ->
            LET w == EtMinuteOfWeek(now)
            IN  MarketOpenAt(w \div MinutesPerDay,
                             (w % MinutesPerDay) \div 60,
                             w % 60)

\* ------------------------------------------------------------------- yield
\* DIVIDEND_HISTORY.filter(d => new Date(d.date) <= today)
PastDividendsOf(history, day) ==
    SelectSeq(history, LAMBDA e : DateLe(e.date, day))

\* xs.slice(from, to).reduce((acc, curr) => acc + curr.dividend, 0)
RECURSIVE SumDividends(_, _, _)
SumDividends(xs, from, to) ==
    IF from >= to \/ from >= Len(xs) THEN Whole(0)
    ELSE JsAdd(SumDividends(xs, from, to - 1),
               IF to <= Len(xs) THEN xs[to].dividend ELSE Whole(0))

\* Mutant of AnnualDividendPerShare: the forward branch reads the newest
\* paid dividend (pastDividends) instead of the newest entry of the history.
AnnualDividendPerShareFromPaid(method) ==
    IF method = "forward"
    THEN IF Len(pastDividends) > 0
         THEN JsMul(pastDividends[1].dividend, Whole(4))
         ELSE Whole(0)
    ELSE IF Len(pastDividends) >= 4
         THEN SumDividends(pastDividends, 0, 4)
         ELSE Whole(0)

\* annualDividendPerShare of the yield effect.
AnnualDividendPerShare(method) ==
    IF method = "forward"
    THEN IF Len(dividendHistory) > 0
         THEN JsMul(dividendHistory[1].dividend, Whole(4))
         ELSE Whole(0)
    ELSE IF Len(pastDividends) >= 4
         THEN SumDividends(pastDividends, 0, 4)
         ELSE Whole(0)

\* One run of the yield effect with sharePrice = price and yieldMethod =
\* method: the value of dividendYield after it (prev when nothing is set).
NewYield(annualDividendPerShare, price) ==
    IF JsGt(annualDividendPerShare, Whole(0))
    THEN JsMul(JsDiv(annualDividendPerShare, price), Whole(100))
    ELSE Whole(0)

YieldEffect(price, method, prev) ==
    IF JsGt(price, Whole(0))
    THEN NewYield(AnnualDividendPerShare(method), price)
    ELSE prev

\* Mutant of AfterRender: yieldMethod is missing from the dependency list.
AfterRenderOnPriceChange(price, method, prev) ==
    IF price = sharePrice
    THEN prev
    ELSE YieldEffect(price, method, prev)

\* The render after a state update to (price, method): the yield effect
\* runs again only when one of its dependencies changed.
AfterRender(price, method, prev) ==
    IF price = sharePrice /\ method = yieldMethod
    THEN prev
    ELSE YieldEffect(price, method, prev)

\* Mutant of Periods: a day is a 360th of the year.
PeriodsOfBankYear(yearly) ==
    [annually |-> yearly,
     quarterly |-> JsDiv(yearly, Whole(4)),
     monthly |-> JsDiv(yearly, Whole(12)),
     daily |-> JsDiv(yearly, Whole(360))]

\* The object calculateDividends returns for a positive yearly income.
Periods(yearly) ==
    [annually |-> yearly,
     quarterly |-> JsDiv(yearly, Whole(4)),
     monthly |-> JsDiv(yearly, Whole(12)),
     daily |-> JsDiv(yearly, Whole(365))]

\* Mutant of calculateDividends: the guard does not look at the share price.
calculateDividendsIgnoringPrice ==
    IF JsLe(investment, Whole(0)) \/ JsLe(dividendYield, Whole(0))
    THEN [annually |-> Whole(0), quarterly |-> Whole(0),
          monthly |-> Whole(0), daily |-> Whole(0)]
    ELSE Periods(JsMul(investment, JsDiv(dividendYield, Whole(100))))

\* calculateDividends()
calculateDividends ==
    IF JsLe(investment, Whole(0)) \/ JsLe(sharePrice, Whole(0))
       \/ JsLe(dividendYield, Whole(0))
    THEN [annually |-> Whole(0), quarterly |-> Whole(0),
          monthly |-> Whole(0), daily |-> Whole(0)]
    ELSE Periods(JsMul(investment, JsDiv(dividendYield, Whole(100))))

\* ---------------------------------------------------------- dividend growth
\* The two digits of k (0 <= k < 100).
TwoDigits(k) == <<DigitChar(k \div 10), DigitChar(k % 10)>>

\* The text of `hundredths` hundredths, with the sign of a negative number.
FixedChars(neg, hundredths) ==
    (IF neg THEN <<"-">> ELSE <<>>)
    \o NatToChars(hundredths \div 100) \o <<".">> \o TwoDigits(hundredths % 100)

\* Number.prototype.toFixed(2): the nearest number of hundredths to |v|, the
\* larger one when two are as near, after the sign of v.
toFixed2(v) ==
    IF IsNum(v)
    THEN FixedChars(v.n < 0, (2 * 100 * Abs(v.n) + v.d) \div (2 * v.d))
    ELSE <<"N", "a", "N">>

NotAvailable == Str(<<"N", "/", "A">>)

\* ((lastYearDividend - prevYearDividend) / prevYearDividend * 100).toFixed(2)
GrowthOf(lastYearDividend, prevYearDividend) ==
    IF prevYearDividend = Whole(0) THEN NotAvailable
    ELSE Str(toFixed2(JsMul(JsDiv(JsSub(lastYearDividend, prevYearDividend),
                                  prevYearDividend),
                            Whole(100))))

\* Mutant of dividendGrowth: 7 paid entries are taken for enough.
dividendGrowthFromSeven ==
    IF Len(pastDividends) < 7 THEN NotAvailable
    ELSE GrowthOf(SumDividends(pastDividends, 0, 4), SumDividends(pastDividends, 4, 8))

\* dividendGrowth (useMemo)
dividendGrowth ==
    IF Len(pastDividends) < 8 THEN NotAvailable
    ELSE GrowthOf(SumDividends(pastDividends, 0, 4), SumDividends(pastDividends, 4, 8))

\* ------------------------------------------------------------- environment
Chars26_5 == <<"2", "6", ".", "5">>
CharsAbc == <<"a", "b", "c">>
CharsMinus5 == <<"-", "5">>

\* Ages, in milliseconds, of the stored timestamps of the initial states:
\* around the two cache durations, and one timestamp of the future.
StoredAges ==
    { 14 * MillisPerMinute,
      CACHE_DURATION_TRADING_MIN * MillisPerMinute - 1,
      CACHE_DURATION_TRADING_MIN * MillisPerMinute,
      23 * 60 * MillisPerMinute,
      CACHE_DURATION_CLOSED_HRS * MillisPerMinute - 1,
      CACHE_DURATION_CLOSED_HRS * MillisPerMinute,
      25 * 60 * MillisPerMinute,
      0 - MillisPerMinute }

\* The item Date.now().toString() of a write `age` milliseconds before the
\* first load.
TimestampAged(age) == Str(toString(Whole(StartMillis - age)))

Store(price, timestamp) ==
    [schd_price |-> price, schd_price_timestamp |-> timestamp]

\* US-Eastern minute of the week of the first load.
MondayOpening == 1 * MinutesPerDay + 9 * 60 + 30
FridayBeforeClose == 5 * MinutesPerDay + 15 * 60 + 45
FridayClose == 5 * MinutesPerDay + 16 * 60
SaturdayNoon == 6 * MinutesPerDay + 12 * 60

\* Dates of new Date(): after every shipped entry; before the newest entry
\* (a declared, unpaid dividend); with 6 and with 2 entries in the past.
Todays == {Date(2026, 11, 6), Date(2025, 6, 1), Date(2022, 1, 15), Date(2021, 1, 15)}

\* Builds: the shipped history, and an empty one.
Histories == {ShippedHistory, <<>>}

Config(store, base, tz, day, history) ==
    [store |-> store, etBase |-> base, tz |-> tz, today |-> day, history |-> history]

\* What the page may find when it is first loaded.  The persisted store holds
\* nothing, text written by an earlier load, or text of another origin.
\* (1) A stored price with a timestamp of every age, market open and closed.
CacheAgeConfigs ==
    { Config(Store(Str(Chars26_5), TimestampAged(a)), b, "ok",
             Date(2026, 11, 6), ShippedHistory) :
        a \in StoredAges, b \in {MondayOpening, SaturdayNoon} }

\* (2) Missing, empty and unparsable items.
CacheTextConfigs ==
    { Config(st, MondayOpening, "ok", Date(2026, 11, 6), ShippedHistory) :
        st \in { Store(Null, Null),
                 Store(Null, TimestampAged(14 * MillisPerMinute)),
                 Store(Str(Chars26_5), Null),
                 Store(Str(Chars26_5), Str(CharsAbc)),
                 Store(Str(Chars26_5), Str(<<>>)),
                 Store(Str(CharsAbc), TimestampAged(14 * MillisPerMinute)),
                 Store(Str(CharsMinus5), TimestampAged(14 * MillisPerMinute)),
                 Store(Str(<<>>), TimestampAged(14 * MillisPerMinute)) } }

\* (3) The market about to close and just closed, and a time zone conversion
\* that throws or gives an Invalid Date, with a stored price of 15 minutes.
ClockConfigs ==
    { Config(Store(Str(Chars26_5),
                   TimestampAged(CACHE_DURATION_TRADING_MIN * MillisPerMinute)),
             c[1], c[2], Date(2026, 11, 6), ShippedHistory) :
        c \in { <<FridayBeforeClose, "ok">>, <<FridayClose, "ok">>,
                <<MondayOpening, "throws">>, <<MondayOpening, "invalid">> } }

\* (4) Every date and history, with an empty store.
HistoryConfigs ==
    { Config(Store(Null, Null), MondayOpening, "ok", day, history) :
        day \in Todays, history \in Histories }

Configs == CacheAgeConfigs \cup CacheTextConfigs \cup ClockConfigs \cup HistoryConfigs

\* What the clock may advance by between two events, in milliseconds.
TickDeltas ==
    { CACHE_DURATION_TRADING_MIN * MillisPerMinute - 1,
      CACHE_DURATION_TRADING_MIN * MillisPerMinute }

\* The price field of the endpoint's JSON object: missing, 0, negative,
\* positive, not a number.
PriceFields == {Undefined, Whole(0), Whole(-5), Num(265, 10), Str(CharsAbc)}

Body(kind, price) == [kind |-> kind, price |-> price]

\* The body of a response: not JSON, the JSON value null, or a JSON object.
Bodies ==
    {Body("malformed", Undefined), Body("null", Undefined)}
    \cup { Body("object", p) : p \in PriceFields }

Response(ok, body) == [ok |-> ok, body |-> body]

\* An error response carries {error: ...} (no price field), or no JSON at all.
Responses ==
    { Response(TRUE, b) : b \in Bodies }
    \cup { Response(FALSE, Body("object", Undefined)),
           Response(FALSE, Body("malformed", Undefined)) }

NoResponse == Response(FALSE, Body("none", Undefined))

\* e.target.value of the two number inputs.
InvestmentTexts == {<<"0">>, <<"-", "1", "0", "0">>, <<"2", "5", "0", "0">>}
SharePriceTexts == {<<>>, <<"-", "1">>, <<"5", "0">>}
YieldMethods == {"forward", "ttm"}

\* ------------------------------------------------------- the quote proxy
\* Values of process.env.Finhub_API: not set, empty, and two keys.
KeyA == <<"k", "1">>
KeyB == <<"k", "2">>
ApiKeys == {Undefined, Str(<<>>), Str(KeyA), Str(KeyB)}

\* `https://finnhub.io/api/v1/quote?symbol=${symbol}&token=${apiKey}`
QuoteUrl(key) == [symbol |-> "SCHD", token |-> toString(key)]
NoUrl == [symbol |-> "", token |-> <<>>]

\* The answer of the data provider: its status, how its body reads
\* ("malformed": not JSON; "null": the JSON value null; "object"), the field
\* c of the object, and whether reading the body as text fails.
Upstream(state, status, kind, c, textFails) ==
    [state |-> state, status |-> status, kind |-> kind, c |-> c,
     textFails |-> textFails]
NoUpstream == Upstream("none", 0, "none", Undefined, FALSE)
Rejected == Upstream("rejected", 0, "none", Undefined, FALSE)

\* response.ok
StatusOk(status) == status >= 200 /\ status <= 299

\* Statuses for which response.ok is false.
ErrorStatuses == {304, 401, 429, 500, 503}

\* The field c of a quote: missing, 0, negative, positive, a string.
Quotes == {Undefined, Whole(0), Whole(-5), Num(265, 10), Num(7850, 100), Str(Chars26_5)}

Upstreams ==
    { Upstream("resolved", st, "object", Undefined, f) :
        st \in ErrorStatuses, f \in BOOLEAN }
    \cup { Upstream("resolved", 200, k, Undefined, FALSE) : k \in {"malformed", "null"} }
    \cup { Upstream("resolved", 200, "object", c, FALSE) : c \in Quotes }

\* The object the handler returns; body is the object given to
\* JSON.stringify (Undefined: no such field).
Result(statusCode, contentType, price, error) ==
    [statusCode |-> statusCode, contentType |-> contentType,
     body |-> [price |-> price, error |-> error]]
NoResult == Result(0, "none", Undefined, "none")

ErrorResult(statusCode, error) == Result(statusCode, "none", Undefined, error)

\* The proxy before its first invocation, with the key of the deployment.
ProxyIdle(key) ==
    /\ apiKey = key
    /\ handlerPc = "idle"
    /\ requestedUrl = NoUrl
    /\ upstream = NoUpstream
    /\ handlerResult = NoResult
    /\ invocations = 0

\* ------------------------------------------------------ the service worker
\* How fetch(event.request) of the worker settled.
Network(state, r) == [state |-> state, response |-> r]

\* The worker with the response its cache holds for the price request
\* (NoResponse: none), before the page has requested the price.
WorkerIdle(cached) ==
    /\ swCache = cached
    /\ network = Network("none", NoResponse)
    /\ responseOrigin = "none"

\* -------------------------------------------------------- the number ticker
\* duration={1000} of the ticker of the income card; delay = 0 by default.
Duration == 1000
\* const startValue = 0
StartValue == Whole(0)

\* dividends[activePeriod] of an investment of 10000 at a yield of 3.48:
\* annually, quarterly, monthly; and of an investment that is not a number.
TickerValues == {Whole(348), Whole(87), Whole(29), NaN}

\* Milliseconds between two frames that are delivered.
FrameDeltas == {400, 1000}

\* The runs of the effect of one behaviour: the first and one for each change.
Effects == 1..(MaxValueChanges + 1)

\* A callback requestAnimationFrame holds: its handle, the run of the effect
\* whose animate it calls, and the time of the request.
FrameRequest(id, effect, requestedAt) ==
    [id |-> id, effect |-> effect, requestedAt |-> requestedAt]

\* The ticker as constructed by its first render, before its effect has run.
TickerIdle ==
    /\ value = Whole(348)
    /\ displayValue = Whole(0)
    /\ effectPending = TRUE
    /\ generation = 0
    /\ targetOf = [e \in Effects |-> Undefined]
    /\ timeouts = {}
    /\ animationId = 0
    /\ frames = {}
    /\ frameRequests = 0
    /\ startTime = [e \in Effects |-> -1]
    /\ lastFrame = [e \in Effects |-> -1]
    /\ onCompleteCalls = [e \in Effects |-> 0]
    /\ performanceNow = 0
    /\ valueChanges = 0
    /\ advances = 0

\* -------------------------------------------------------------------- Init
getItem(key) ==
    IF key = CACHE_KEY_PRICE THEN localStorage.schd_price
    ELSE localStorage.schd_price_timestamp

\* The component as constructed by its first render.
InitComponent ==
    /\ investment = InitialInvestment
    /\ sharePrice = InitialSharePrice
    /\ dividendYield = InitialDividendYield
    /\ yieldMethod = "forward"
    /\ isPriceLoading = TRUE
    /\ priceError = NoError

Init ==
    /\ InitComponent
    /\ \E c \in Configs :
          /\ localStorage = c.store
          /\ etBase = c.etBase
          /\ tzConversion = c.tz
          /\ today = c.today
          /\ dividendHistory = c.history
    /\ pastDividends = PastDividendsOf(dividendHistory, today)
    /\ pc = "init"
    /\ response = NoResponse
    /\ fetchCalls = 0
    /\ priceSource = "initial"
    /\ loads = 1
    /\ now = StartMillis
    /\ ticks = 0
    /\ ProxyIdle(Str(KeyA))
    /\ WorkerIdle(NoResponse)
    /\ TickerIdle

\* ------------------------------------------------------------ the mount effect
\* ageInMinutes = (now - timestamp) / (1000 * 60)
AgeInMinutes(timestamp) ==
    JsDiv(JsSub(Whole(now), timestamp), Whole(MillisPerMinute))

\* marketOpen ? CACHE_DURATION_TRADING_MIN : CACHE_DURATION_CLOSED_HRS
CacheDuration(marketOpen) ==
    IF marketOpen THEN CACHE_DURATION_TRADING_MIN ELSE CACHE_DURATION_CLOSED_HRS

\* Mutant of IsFresh: a timestamp of the future is taken for expired.
IsFreshAndNotFuture(ageInMinutes, cacheDuration) ==
    /\ JsLe(Whole(0), ageInMinutes)
    /\ JsLt(ageInMinutes, Whole(cacheDuration))

\* Mutant of IsFresh: the comparison admits the boundary (<=).
IsFreshInclusive(ageInMinutes, cacheDuration) ==
    JsLe(ageInMinutes, Whole(cacheDuration))

\* if (ageInMinutes < cacheDuration)
IsFresh(ageInMinutes, cacheDuration) ==
    JsLt(ageInMinutes, Whole(cacheDuration))

\* The two conditions under which managePriceFetch uses the cached price.
CacheHit(cachedPrice, cachedTimestamp) ==
    /\ Truthy(cachedPrice) /\ Truthy(cachedTimestamp)
    /\ IsFresh(AgeInMinutes(parseInt(cachedTimestamp.s)), CacheDuration(isMarketOpen))

\* Mutant of ManagePriceFetch: the cache hit forgets setIsPriceLoading(false).
ManagePriceFetchKeepsLoading(cachedPrice, cachedTimestamp, firstYield) ==
    IF CacheHit(cachedPrice, cachedTimestamp)
    THEN /\ sharePrice' = parseFloat(cachedPrice.s)
         /\ dividendYield' = AfterRender(parseFloat(cachedPrice.s), yieldMethod, firstYield)
         /\ priceSource' = "cache"
         /\ pc' = "settled"
         /\ UNCHANGED << isPriceLoading, priceError, fetchCalls >>
    ELSE /\ isPriceLoading' = TRUE
         /\ priceError' = NoError
         /\ fetchCalls' = fetchCalls + 1
         /\ pc' = "awaitFetch"
         /\ dividendYield' = firstYield
         /\ UNCHANGED << sharePrice, priceSource >>

\* Mutant of ManagePriceFetch: stale-while-revalidate, the expired cached
\* price is shown while the fetch runs.
ManagePriceFetchShowsStale(cachedPrice, cachedTimestamp, firstYield) ==
    IF CacheHit(cachedPrice, cachedTimestamp)
    THEN /\ sharePrice' = parseFloat(cachedPrice.s)
         /\ isPriceLoading' = FALSE
         /\ dividendYield' = AfterRender(parseFloat(cachedPrice.s), yieldMethod, firstYield)
         /\ priceSource' = "cache"
         /\ pc' = "settled"
         /\ UNCHANGED << priceError, fetchCalls >>
    ELSE /\ isPriceLoading' = TRUE
         /\ priceError' = NoError
         /\ fetchCalls' = fetchCalls + 1
         /\ pc' = "awaitFetch"
         /\ IF Truthy(cachedPrice)
            THEN /\ sharePrice' = parseFloat(cachedPrice.s)
                 /\ priceSource' = "cache"
                 /\ dividendYield' =
                       AfterRender(parseFloat(cachedPrice.s), yieldMethod, firstYield)
            ELSE /\ dividendYield' = firstYield
                 /\ UNCHANGED << sharePrice, priceSource >>

\* managePriceFetch() with the two items read, followed by the first run of
\* the yield effect (which leaves firstYield) and the render the state
\* updates cause.
ManagePriceFetch(cachedPrice, cachedTimestamp, firstYield) ==
    IF CacheHit(cachedPrice, cachedTimestamp)
    THEN /\ sharePrice' = parseFloat(cachedPrice.s)
         /\ isPriceLoading' = FALSE
         /\ dividendYield' = AfterRender(parseFloat(cachedPrice.s), yieldMethod, firstYield)
         /\ priceSource' = "cache"
         /\ pc' = "settled"
         /\ UNCHANGED << priceError, fetchCalls >>
    ELSE \* fetchSharePrice(), up to its first await
         /\ isPriceLoading' = TRUE
         /\ priceError' = NoError
         /\ fetchCalls' = fetchCalls + 1
         /\ pc' = "awaitFetch"
         /\ dividendYield' = firstYield
         /\ UNCHANGED << sharePrice, priceSource >>

\* The first run of the effects after the first render: the mount effect,
\* then the yield effect with the values of that render.
Mount ==
    /\ pc = "init"
    /\ ManagePriceFetch(getItem(CACHE_KEY_PRICE), getItem(CACHE_KEY_TIMESTAMP),
                        YieldEffect(sharePrice, yieldMethod, dividendYield))
    /\ UNCHANGED << investment, yieldMethod, pastDividends, localStorage, response,
                    loads, now, ticks, environmentVars >>

\* Mutant of CatchAndFinally: no finally block, the catch block leaves the
\* loading flag as it is.
CatchWithoutFinally ==
    /\ priceError' = PriceErrorMessage
    /\ sharePrice' = FallbackPrice
    /\ dividendYield' = AfterRender(FallbackPrice, yieldMethod, dividendYield)
    /\ priceSource' = "fallback"
    /\ pc' = "settled"
    /\ UNCHANGED << isPriceLoading, localStorage >>

\* catch (error) { setPriceError(..); setSharePrice(27) } finally
\* { setIsPriceLoading(false) }, and the render that follows.
CatchAndFinally ==
    /\ priceError' = PriceErrorMessage
    /\ sharePrice' = FallbackPrice
    /\ isPriceLoading' = FALSE
    /\ dividendYield' = AfterRender(FallbackPrice, yieldMethod, dividendYield)
    /\ priceSource' = "fallback"
    /\ pc' = "settled"
    /\ UNCHANGED localStorage

\* await fetch(...) rejects: a network exception.
FetchReject ==
    /\ pc = "awaitFetch"
    /\ CatchAndFinally
    /\ UNCHANGED << investment, yieldMethod, pastDividends, response, fetchCalls,
                    loads, now, ticks, environmentVars >>

\* await fetch(...) resolves with a response; response.json() is awaited next.
FetchResolve(r) ==
    /\ pc = "awaitFetch"
    /\ response' = r
    /\ pc' = "awaitJson"
    /\ UNCHANGED << componentVars, localStorage, fetchCalls, priceSource, loads,
                    now, ticks, environmentVars >>

\* if (data.price)
PriceAccepted(price) == Truthy(price)

\* Whether the try block runs to its end: the response is ok, its body is
\* JSON, data.price does not throw (data is not null) and the price passes.
TryCompletes(r) ==
    /\ r.ok
    /\ r.body.kind = "object"
    /\ PriceAccepted(r.body.price)

\* localStorage.setItem(CACHE_KEY_PRICE, data.price.toString());
\* localStorage.setItem(CACHE_KEY_TIMESTAMP, Date.now().toString())
WriteCache(price) ==
    localStorage' = Store(Str(toString(price)), Str(toString(Whole(now))))

\* await response.json() settles, and fetchSharePrice runs to its end.
JsonSettle ==
    /\ pc = "awaitJson"
    /\ IF TryCompletes(response)
       THEN /\ sharePrice' = response.body.price
            /\ WriteCache(response.body.price)
            /\ isPriceLoading' = FALSE
            /\ dividendYield' = AfterRender(response.body.price, yieldMethod, dividendYield)
            /\ priceSource' = "network"
            /\ pc' = "settled"
            /\ UNCHANGED priceError
       ELSE CatchAndFinally
    /\ response' = NoResponse
    /\ UNCHANGED << investment, yieldMethod, pastDividends, fetchCalls,
                    loads, now, ticks, environmentVars >>

\* ------------------------------------------------------------- user events
\* Mutant of ChangeInvestment: the handler runs before the effects of the
\* first render.
ChangeInvestmentBeforeEffects(text) ==
    /\ investment' = StringToNumber(text)
    /\ UNCHANGED << sharePrice, dividendYield, yieldMethod, isPriceLoading, priceError,
                    pastDividends, localStorage, pc, response, fetchCalls,
                    priceSource, loads, now, ticks, environmentVars >>

\* onChange of the investment input: setInvestment(Number(e.target.value))
ChangeInvestment(text) ==
    /\ pc # "init"
    /\ investment' = StringToNumber(text)
    /\ UNCHANGED << sharePrice, dividendYield, yieldMethod, isPriceLoading, priceError,
                    pastDividends, localStorage, pc, response, fetchCalls,
                    priceSource, loads, now, ticks, environmentVars >>

\* Mutant of ChangeSharePrice: the input is enabled while the price loads.
ChangeSharePriceWhileLoading(text) ==
    /\ pc # "init"
    /\ sharePrice' = StringToNumber(text)
    /\ dividendYield' = AfterRender(StringToNumber(text), yieldMethod, dividendYield)
    /\ priceSource' = "user"
    /\ UNCHANGED << investment, yieldMethod, isPriceLoading, priceError,
                    pastDividends, localStorage, pc, response, fetchCalls,
                    loads, now, ticks, environmentVars >>

\* Mutant of ChangeSharePrice: an edited price starts the fetch again.
ChangeSharePriceRefetches(text) ==
    /\ pc # "init"
    /\ ~isPriceLoading
    /\ sharePrice' = StringToNumber(text)
    /\ dividendYield' = AfterRender(StringToNumber(text), yieldMethod, dividendYield)
    /\ priceSource' = "user"
    /\ isPriceLoading' = TRUE
    /\ fetchCalls' = fetchCalls + 1
    /\ pc' = "awaitFetch"
    /\ UNCHANGED << investment, yieldMethod, priceError,
                    pastDividends, localStorage, response,
                    loads, now, ticks, environmentVars >>

\* onChange of the share price input (disabled={isPriceLoading}):
\* setSharePrice(Number(e.target.value)), and the render that follows.
ChangeSharePrice(text) ==
    /\ pc # "init"
    /\ ~isPriceLoading
    /\ sharePrice' = StringToNumber(text)
    /\ dividendYield' = AfterRender(StringToNumber(text), yieldMethod, dividendYield)
    /\ priceSource' = "user"
    /\ UNCHANGED << investment, yieldMethod, isPriceLoading, priceError,
                    pastDividends, localStorage, pc, response, fetchCalls,
                    loads, now, ticks, environmentVars >>

\* onClick of the Forward and TTM buttons: setYieldMethod(method), and the
\* render that follows.
ChangeYieldMethod(method) ==
    /\ pc # "init"
    /\ yieldMethod' = method
    /\ dividendYield' = AfterRender(sharePrice, method, dividendYield)
    /\ UNCHANGED << investment, sharePrice, isPriceLoading, priceError,
                    pastDividends, localStorage, pc, response, fetchCalls,
                    priceSource, loads, now, ticks, environmentVars >>

\* ------------------------------------------------------------- environment
\* Time passes.
Tick(delta) ==
    /\ ticks < MaxTicks
    /\ now' = now + delta
    /\ ticks' = ticks + 1
    /\ UNCHANGED << componentVars, localStorage, pc, response, fetchCalls,
                    priceSource, loads, environmentVars >>

\* The page is loaded again: a new App is constructed; the store persists.
Reload ==
    /\ pc # "init"
    /\ loads < MaxLoads
    /\ investment' = InitialInvestment
    /\ sharePrice' = InitialSharePrice
    /\ dividendYield' = InitialDividendYield
    /\ yieldMethod' = "forward"
    /\ isPriceLoading' = TRUE
    /\ priceError' = NoError
    /\ pastDividends' = PastDividendsOf(dividendHistory, today)
    /\ pc' = "init"
    /\ response' = NoResponse
    /\ fetchCalls' = 0
    /\ priceSource' = "initial"
    /\ loads' = loads + 1
    /\ UNCHANGED << localStorage, now, ticks, environmentVars >>

Next ==
    \/ Mount
    \/ FetchReject
    \/ \E r \in Responses : FetchResolve(r)
    \/ JsonSettle
    \/ \E text \in InvestmentTexts : ChangeInvestment(text)
    \/ \E text \in SharePriceTexts : ChangeSharePrice(text)
    \/ \E method \in YieldMethods : ChangeYieldMethod(method)
    \/ \E delta \in TickDeltas : Tick(delta)
    \/ Reload

Spec == Init /\ [][Next]_vars

\* -------------------------------------------- a store that refuses a write
\* localStorage.setItem throws (a QuotaExceededError: the store is full or
\* refuses writes) at the first or at the second of the two calls, after
\* setSharePrice(data.price); the catch and finally blocks run.
JsonSettleWriteFails(failingCall) ==
    /\ pc = "awaitJson"
    /\ TryCompletes(response)
    /\ localStorage' =
          IF failingCall = 1 THEN localStorage
          ELSE Store(Str(toString(response.body.price)), localStorage.schd_price_timestamp)
    /\ priceError' = PriceErrorMessage
    /\ sharePrice' = FallbackPrice
    /\ isPriceLoading' = FALSE
    /\ dividendYield' = AfterRender(FallbackPrice, yieldMethod, dividendYield)
    /\ priceSource' = "fallback"
    /\ pc' = "settled"
    /\ response' = NoResponse
    /\ UNCHANGED << investment, yieldMethod, pastDividends, fetchCalls,
                    loads, now, ticks, environmentVars >>

StorageNext ==
    \/ Next
    \/ \E failingCall \in {1, 2} : JsonSettleWriteFails(failingCall)

\* The page in a browser whose store may refuse a write.
StorageSpec == Init /\ [][StorageNext]_vars

\* ------------------------------------------- a load whose promises settle
\* (Fairness is stated on the position of the mount effect: in every
\* specification of this module only Mount moves it from "init", only
\* FetchReject and FetchResolve from "awaitFetch" to a later position, and
\* only JsonSettle and JsonSettleWriteFails from "awaitJson" to "settled".)

\* The effects of the first render run: React runs them once the render is
\* committed.
EffectsRun == WF_pc(pc = "init" /\ pc' \in {"awaitFetch", "settled"})

\* The promise of fetch(..) settles: the network call resolves or rejects.
FetchSettles == WF_pc(pc = "awaitFetch" /\ pc' \in {"awaitJson", "settled"})

\* The promise of response.json() settles, and the continuation of
\* fetchSharePrice runs: the body of the response is read to its end.
BodySettles == WF_pc(pc = "awaitJson" /\ pc' = "settled")

\* The page, in a browser whose store may refuse a write, when the effects
\* run and each awaited promise settles.
LoadSpec == StorageSpec /\ EffectsRun /\ FetchSettles /\ BodySettles

\* --------------------------------- the page controlled by the service worker
\* Mutant of WorkerNetworkResolve: the price request is answered as the
\* other requests are, from the cache when it holds a response.
WorkerServesCacheFirst(r) ==
    /\ pc = "awaitFetch"
    /\ network' = Network("resolved", r)
    /\ swCache' = r
    /\ response' = IF swCache = NoResponse THEN r ELSE swCache
    /\ responseOrigin' = IF swCache = NoResponse THEN "network" ELSE "cache"
    /\ pc' = "awaitJson"
    /\ UNCHANGED << componentVars, localStorage, fetchCalls, priceSource, loads,
                    now, ticks, etBase, tzConversion, today, dividendHistory, tickerVars,
                    proxyVars >>

\* fetch(event.request) resolves with r: a clone is put into the cache and
\* r is what event.respondWith answers the page's fetch with.
WorkerNetworkResolve(r) ==
    /\ pc = "awaitFetch"
    /\ network' = Network("resolved", r)
    /\ swCache' = r
    /\ response' = r
    /\ responseOrigin' = "network"
    /\ pc' = "awaitJson"
    /\ UNCHANGED << componentVars, localStorage, fetchCalls, priceSource, loads,
                    now, ticks, etBase, tzConversion, today, dividendHistory, tickerVars,
                    proxyVars >>

\* fetch(event.request) rejects: caches.match(event.request) answers.  With
\* no cached response it gives undefined, respondWith fails the request and
\* the page's fetch rejects.
WorkerNetworkReject ==
    /\ pc = "awaitFetch"
    /\ network' = Network("rejected", NoResponse)
    /\ IF swCache = NoResponse
       THEN /\ CatchAndFinally
            /\ responseOrigin' = "none"
            /\ UNCHANGED response
       ELSE /\ response' = swCache
            /\ responseOrigin' = "cache"
            /\ pc' = "awaitJson"
            /\ UNCHANGED << sharePrice, dividendYield, isPriceLoading, priceError,
                            priceSource, localStorage >>
    /\ UNCHANGED << investment, yieldMethod, pastDividends, fetchCalls, loads, now,
                    ticks, etBase, tzConversion, today, dividendHistory, tickerVars, proxyVars,
                    swCache >>

\* A response of an earlier visit in the worker's cache.
EarlierResponse == Response(TRUE, Body("object", Num(7850, 100)))

\* The page is loaded under the worker, with nothing stored or with a price
\* stored 15 minutes ago, while the market is open.
WorkerInit ==
    /\ InitComponent
    /\ localStorage \in
          { Store(Null, Null),
            Store(Str(Chars26_5),
                  TimestampAged(CACHE_DURATION_TRADING_MIN * MillisPerMinute)) }
    /\ etBase = MondayOpening
    /\ tzConversion = "ok"
    /\ today = Date(2026, 11, 6)
    /\ dividendHistory = ShippedHistory
    /\ pastDividends = PastDividendsOf(dividendHistory, today)
    /\ pc = "init"
    /\ response = NoResponse
    /\ fetchCalls = 0
    /\ priceSource = "initial"
    /\ loads = 1
    /\ now = StartMillis
    /\ ticks = 0
    /\ ProxyIdle(Str(KeyA))
    /\ \E cached \in {NoResponse, EarlierResponse} : WorkerIdle(cached)
    /\ TickerIdle

WorkerNext ==
    \/ Mount
    \/ \E r \in Responses : WorkerNetworkResolve(r)
    \/ WorkerNetworkReject
    \/ JsonSettle
    \/ \E delta \in TickDeltas : Tick(delta)
    \/ Reload

WorkerSpec == WorkerInit /\ [][WorkerNext]_vars

\* ------------------------------------------------------ the number ticker
appVars ==
    << componentVars, pastDividends, localStorage, pc, response, fetchCalls,
       priceSource, loads, now, ticks, etBase, tzConversion, today,
       dividendHistory, proxyVars, workerVars >>

\* The parent renders the ticker with another value; the render is committed
\* (the effects of an earlier commit have run before a new render starts).
ChangeValue(v) ==
    /\ ~effectPending
    /\ valueChanges < MaxValueChanges
    /\ v # value
    /\ value' = v
    /\ effectPending' = TRUE
    /\ valueChanges' = valueChanges + 1
    /\ UNCHANGED << displayValue, generation, targetOf, timeouts, animationId, frames,
                    frameRequests, startTime, lastFrame, onCompleteCalls,
                    performanceNow, advances, appVars >>

\* Mutant of RunEffect: the cleanup clears the timeout only.
RunEffectKeepsFrame ==
    /\ effectPending
    /\ generation' = generation + 1
    /\ targetOf' = [targetOf EXCEPT ![generation + 1] = value]
    /\ timeouts' = (timeouts \ {generation}) \cup {generation + 1}
    /\ animationId' = 0
    /\ effectPending' = FALSE
    /\ UNCHANGED << value, displayValue, frames, frameRequests, startTime, lastFrame,
                    onCompleteCalls, performanceNow, valueChanges, advances, appVars >>

\* The effect runs for the committed value: the cleanup of the run before
\* (cancelAnimationFrame(animationId); clearTimeout(timeoutId)), then
\* const timeoutId = setTimeout(startAnimation, delay) of the new run.
RunEffect ==
    /\ effectPending
    /\ generation' = generation + 1
    /\ targetOf' = [targetOf EXCEPT ![generation + 1] = value]
    /\ frames' = {f \in frames : f.id # animationId}
    /\ timeouts' = (timeouts \ {generation}) \cup {generation + 1}
    /\ animationId' = 0
    /\ effectPending' = FALSE
    /\ UNCHANGED << value, displayValue, frameRequests, startTime, lastFrame,
                    onCompleteCalls, performanceNow, valueChanges, advances, appVars >>

\* animationId = requestAnimationFrame(animate), by a run of the effect: the
\* handle is assigned to the variable of that run.
RequestFrame(effect, pending) ==
    /\ frameRequests' = frameRequests + 1
    /\ frames' = pending \cup {FrameRequest(frameRequests + 1, effect, performanceNow)}
    /\ animationId' = IF effect = generation THEN frameRequests + 1 ELSE animationId

\* The timeout of a run fires: startAnimation().
StartAnimation(effect) ==
    /\ effect \in timeouts
    /\ timeouts' = timeouts \ {effect}
    /\ startTime' = [startTime EXCEPT ![effect] = performanceNow]
    /\ RequestFrame(effect, frames)
    /\ UNCHANGED << value, displayValue, effectPending, generation, targetOf, lastFrame,
                    onCompleteCalls, performanceNow, valueChanges, advances, appVars >>

\* Math.min(elapsed / duration, 1)
Progress(elapsed) == IF elapsed >= Duration THEN Whole(1) ELSE Num(elapsed, Duration)

Squared(x) == NumMul(x, x)

\* 1 - Math.pow(1 - progress, 4)
EaseOutQuart(progress) ==
    NumSub(Whole(1), Squared(Squared(NumSub(Whole(1), progress))))

\* startValue + (value - startValue) * easeOutQuart
CurrentValue(target, progress) ==
    NumAdd(StartValue, NumMul(NumSub(target, StartValue), EaseOutQuart(progress)))

\* A frame is delivered, after the time of its request: animate(currentTime)
\* of the run that requested it.
Animate(f) ==
    /\ f \in frames
    /\ performanceNow > f.requestedAt
    /\ lastFrame' = [lastFrame EXCEPT ![f.effect] = performanceNow]
    /\ IF NumLt(Progress(performanceNow - startTime[f.effect]), Whole(1))
       THEN /\ displayValue' =
                  CurrentValue(targetOf[f.effect],
                               Progress(performanceNow - startTime[f.effect]))
            /\ RequestFrame(f.effect, frames \ {f})
            /\ UNCHANGED onCompleteCalls
       ELSE /\ displayValue' = targetOf[f.effect]
            /\ onCompleteCalls' =
                  [onCompleteCalls EXCEPT ![f.effect] = onCompleteCalls[f.effect] + 1]
            /\ frames' = frames \ {f}
            /\ UNCHANGED << frameRequests, animationId >>
    /\ UNCHANGED << value, effectPending, generation, targetOf, timeouts, startTime,
                    performanceNow, valueChanges, advances, appVars >>

\* Time passes.
Advance(delta) ==
    /\ advances < MaxAdvances
    /\ performanceNow' = performanceNow + delta
    /\ advances' = advances + 1
    /\ UNCHANGED << value, displayValue, effectPending, generation, targetOf, timeouts,
                    animationId, frames, frameRequests, startTime, lastFrame,
                    onCompleteCalls, valueChanges, appVars >>

\* The ticker of the income card; the rest of the page is not looked at.
TickerInit ==
    /\ InitComponent
    /\ localStorage = Store(Null, Null)
    /\ etBase = MondayOpening
    /\ tzConversion = "ok"
    /\ today = Date(2026, 11, 6)
    /\ dividendHistory = ShippedHistory
    /\ pastDividends = PastDividendsOf(dividendHistory, today)
    /\ pc = "init"
    /\ response = NoResponse
    /\ fetchCalls = 0
    /\ priceSource = "initial"
    /\ loads = 1
    /\ now = StartMillis
    /\ ticks = 0
    /\ ProxyIdle(Str(KeyA))
    /\ WorkerIdle(NoResponse)
    /\ TickerIdle

TickerNext ==
    \/ \E v \in TickerValues : ChangeValue(v)
    \/ RunEffect
    \/ \E effect \in Effects : StartAnimation(effect)
    \/ \E f \in frames : Animate(f)
    \/ \E delta \in FrameDeltas : Advance(delta)

TickerSpec == TickerInit /\ [][TickerNext]_vars

\* ------------------------------------------------- the page at any hour
\* Minutes of the day at which the page is loaded: midnight, around the
\* opening and the close, noon, the last minute.
LoadMinutesOfDay ==
    { 0, 9 * 60 + 29, 9 * 60 + 30, 12 * 60, 15 * 60 + 45, 15 * 60 + 59,
      16 * 60, 23 * 60 + 59 }

\* US-Eastern minutes of the week of the first load, on each of the 7 days.
LoadMinutesOfWeek ==
    { day * MinutesPerDay + m : day \in 0 .. 6, m \in LoadMinutesOfDay }

\* How new Date(now.toLocaleString('en-US', {timeZone: ...})) may behave:
\* it gives the Eastern wall clock, toLocaleString throws (a RangeError for
\* the time zone), or the text is one the Date constructor cannot parse
\* (an Invalid Date).
TzConversions == {"ok", "throws", "invalid"}

\* The page is loaded at any hour of the week, in any browser, and finds a
\* price stored 15 minutes ago (which is fresh only when the market is
\* taken for closed).
MarketHoursInit ==
    /\ InitComponent
    /\ localStorage = Store(Str(Chars26_5),
                            TimestampAged(CACHE_DURATION_TRADING_MIN * MillisPerMinute))
    /\ etBase \in LoadMinutesOfWeek
    /\ tzConversion \in TzConversions
    /\ today = Date(2026, 11, 6)
    /\ dividendHistory = ShippedHistory
    /\ pastDividends = PastDividendsOf(dividendHistory, today)
    /\ pc = "init"
    /\ response = NoResponse
    /\ fetchCalls = 0
    /\ priceSource = "initial"
    /\ loads = 1
    /\ now = StartMillis
    /\ ticks = 0
    /\ ProxyIdle(Str(KeyA))
    /\ WorkerIdle(NoResponse)
    /\ TickerIdle

\* The load decision (which calls isMarketOpen), at the time of the load or
\* later.
MarketHoursNext ==
    \/ Mount
    \/ \E delta \in TickDeltas : Tick(delta)

MarketHoursSpec == MarketHoursInit /\ [][MarketHoursNext]_vars

\* ------------------------------------------------ the page of any build
\* A history of 8 entries whose older four paid nothing.
ZeroPriorHistory ==
    << Entry(6, 25, 2025, 26), Entry(3, 26, 2025, 25), Entry(12, 11, 2024, 26),
       Entry(9, 25, 2024, 25), Entry(6, 26, 2024, 0), Entry(3, 20, 2024, 0),
       Entry(12, 6, 2023, 0), Entry(9, 20, 2023, 0) >>

\* A history of 8 entries whose dividend fell from 0.15 to 0.10.
DecliningHistory ==
    << Entry(6, 25, 2025, 10), Entry(3, 26, 2025, 10), Entry(12, 11, 2024, 10),
       Entry(9, 25, 2024, 10), Entry(6, 26, 2024, 15), Entry(3, 20, 2024, 15),
       Entry(12, 6, 2023, 15), Entry(9, 20, 2023, 15) >>

GrowthHistories == {ShippedHistory, <<>>, ZeroPriorHistory, DecliningHistory}

\* Dates of new Date(): before every shipped entry; with 6, 7 (on the day of
\* the 7th and on the eve of the 8th) and 8 shipped entries in the past;
\* before and after the newest entry.
GrowthTodays ==
    { Date(2020, 1, 1), Date(2022, 3, 22), Date(2022, 3, 23), Date(2022, 6, 21),
      Date(2022, 6, 22), Date(2025, 6, 1), Date(2026, 11, 6) }

\* The page of any build is loaded on any day, with an empty store.
HistoryInit ==
    /\ InitComponent
    /\ localStorage = Store(Null, Null)
    /\ etBase = MondayOpening
    /\ tzConversion = "ok"
    /\ today \in GrowthTodays
    /\ dividendHistory \in GrowthHistories
    /\ pastDividends = PastDividendsOf(dividendHistory, today)
    /\ pc = "init"
    /\ response = NoResponse
    /\ fetchCalls = 0
    /\ priceSource = "initial"
    /\ loads = 1
    /\ now = StartMillis
    /\ ticks = 0
    /\ ProxyIdle(Str(KeyA))
    /\ WorkerIdle(NoResponse)
    /\ TickerIdle

\* The load with a fetch that fails, and the edits of the user.
HistoryNext ==
    \/ Mount
    \/ FetchReject
    \/ \E text \in InvestmentTexts : ChangeInvestment(text)
    \/ \E method \in YieldMethods : ChangeYieldMethod(method)

HistorySpec == HistoryInit /\ [][HistoryNext]_vars

\* ------------------------------------------- the quote proxy: its handler
\* Mutant of HandlerCatch: the body carries error.message, which for a failed
\* request names the url that was requested.
HandlerCatchWithMessage ==
    /\ handlerResult' =
          ErrorResult(500, IF requestedUrl.token = KeyA
                           THEN "request to finnhub.io/api/v1/quote?symbol=SCHD&token=k1 failed"
                           ELSE "request to finnhub.io/api/v1/quote?symbol=SCHD&token=k2 failed")
    /\ handlerPc' = "returned"

\* catch (error) { ...; return { statusCode: 500, ... } }
HandlerCatch ==
    /\ handlerResult' = ErrorResult(500, "An internal error occurred.")
    /\ handlerPc' = "returned"

\* exports.handler is invoked: the key is read, and fetch(url) is awaited.
Invoke ==
    /\ handlerPc \in {"idle", "returned"}
    /\ invocations < MaxInvocations
    /\ invocations' = invocations + 1
    /\ upstream' = NoUpstream
    /\ IF ~Truthy(apiKey)
       THEN /\ handlerResult' = ErrorResult(500, "API key is not configured.")
            /\ handlerPc' = "returned"
            /\ requestedUrl' = NoUrl
       ELSE /\ requestedUrl' = QuoteUrl(apiKey)
            /\ handlerPc' = "awaitFetch"
            /\ handlerResult' = NoResult
    /\ UNCHANGED << apiKey, componentVars, localStorage, pc, response, fetchCalls,
                    priceSource, loads, now, ticks, etBase, tzConversion, today,
                    dividendHistory, tickerVars, workerVars >>

\* await fetch(url) rejects.
UpstreamReject ==
    /\ handlerPc = "awaitFetch"
    /\ upstream' = Rejected
    /\ HandlerCatch
    /\ UNCHANGED << apiKey, requestedUrl, invocations, componentVars, localStorage,
                    pc, response, fetchCalls, priceSource, loads, now, ticks,
                    etBase, tzConversion, today, dividendHistory, tickerVars,
                    workerVars >>

\* await fetch(url) resolves; response.text() or response.json() is awaited.
UpstreamResolve(r) ==
    /\ handlerPc = "awaitFetch"
    /\ upstream' = r
    /\ handlerPc' = IF StatusOk(r.status) THEN "awaitJson" ELSE "awaitText"
    /\ UNCHANGED << apiKey, requestedUrl, handlerResult, invocations, componentVars,
                    localStorage, pc, response, fetchCalls, priceSource, loads,
                    now, ticks, etBase, tzConversion, today, dividendHistory, tickerVars,
                    workerVars >>

\* if (!response.ok) { const errorText = await response.text(); ... }
TextSettle ==
    /\ handlerPc = "awaitText"
    /\ IF upstream.textFails
       THEN HandlerCatch
       ELSE /\ handlerResult' =
                  ErrorResult(upstream.status, "Failed to fetch price from data provider.")
            /\ handlerPc' = "returned"
    /\ UNCHANGED << apiKey, requestedUrl, upstream, invocations, componentVars,
                    localStorage, pc, response, fetchCalls, priceSource, loads,
                    now, ticks, etBase, tzConversion, today, dividendHistory, tickerVars,
                    workerVars >>

\* Mutant of InvalidQuote: a price of 0 passes (<).
InvalidQuoteBelowZero(c) == c.t # "num" \/ JsLt(c, Whole(0))

\* typeof data.c !== 'number' || data.c <= 0
InvalidQuote(c) == c.t # "num" \/ JsLe(c, Whole(0))

\* const data = await response.json(), and the rest of the try block.
\* (A body that is not JSON makes json() reject; data.c of null throws.)
QuoteSettle ==
    /\ handlerPc = "awaitJson"
    /\ IF upstream.kind # "object"
       THEN HandlerCatch
       ELSE /\ handlerResult' =
                  IF InvalidQuote(upstream.c)
                  THEN ErrorResult(500, "Received invalid price data.")
                  ELSE Result(200, "application/json", upstream.c, "none")
            /\ handlerPc' = "returned"
    /\ UNCHANGED << apiKey, requestedUrl, upstream, invocations, componentVars,
                    localStorage, pc, response, fetchCalls, priceSource, loads,
                    now, ticks, etBase, tzConversion, today, dividendHistory, tickerVars,
                    workerVars >>

\* The proxy of any deployment; the page is not looked at.
ProxyInit ==
    /\ InitComponent
    /\ localStorage = Store(Null, Null)
    /\ etBase = MondayOpening
    /\ tzConversion = "ok"
    /\ today = Date(2026, 11, 6)
    /\ dividendHistory = ShippedHistory
    /\ pastDividends = PastDividendsOf(dividendHistory, today)
    /\ pc = "init"
    /\ response = NoResponse
    /\ fetchCalls = 0
    /\ priceSource = "initial"
    /\ loads = 1
    /\ now = StartMillis
    /\ ticks = 0
    /\ \E key \in ApiKeys : ProxyIdle(key)
    /\ WorkerIdle(NoResponse)
    /\ TickerIdle

ProxyNext ==
    \/ Invoke
    \/ UpstreamReject
    \/ \E r \in Upstreams : UpstreamResolve(r)
    \/ TextSettle
    \/ QuoteSettle

ProxySpec == ProxyInit /\ [][ProxyNext]_vars

\* ================================================================== claims
\* Steps of a behaviour, as the claims name them.
LoadStep == pc = "init" /\ pc' # "init"
JsonSettleStep == pc = "awaitJson" /\ pc' = "settled"
RejectStep == pc = "awaitFetch" /\ pc' = "settled"

StoredPrice == localStorage.schd_price
StoredTimestamp == localStorage.schd_price_timestamp

\* Both keys hold text (an empty item counts as a missing one).
BothItemsHoldText ==
    /\ StoredPrice.t = "str" /\ StoredPrice.s # <<>>
    /\ StoredTimestamp.t = "str" /\ StoredTimestamp.s # <<>>

\* now - stored timestamp is less than `minutes` minutes, in milliseconds.
StoredAgeBelow(minutes) ==
    /\ parseInt(StoredTimestamp.s).t = "num"
    /\ now - parseInt(StoredTimestamp.s).n < minutes * 60 * 1000

\* The stored timestamp is a number and its age is at least `minutes` minutes.
StoredAgeAtLeast(minutes) ==
    /\ parseInt(StoredTimestamp.s).t = "num"
    /\ now - parseInt(StoredTimestamp.s).n >= minutes * 60 * 1000

\* The claimed threshold: 15 minutes with the market open, 1440 closed.
ClaimedThreshold == IF isMarketOpen THEN 15 ELSE 1440

UsedCachedPrice ==
    /\ pc' = "settled"
    /\ priceSource' = "cache"
    /\ sharePrice' = parseFloat(StoredPrice.s)
    /\ fetchCalls' = fetchCalls

\* C1: on a load that finds text under both keys, the cached price is used
\* and no fetch runs if and only if the age of the stored timestamp is
\* strictly less than 15 minutes (market open) or 1440 minutes (closed).
C1_ValidIffYoungerThanThreshold ==
    [][ (LoadStep /\ BothItemsHoldText)
            => (UsedCachedPrice <=> StoredAgeBelow(ClaimedThreshold)) ]_vars

\* A load used a cached price whose age was one millisecond short of 15
\* minutes, with the market open.
C1_Witness ==
    /\ priceSource = "cache"
    /\ fetchCalls = 0
    /\ isMarketOpen
    /\ parseInt(StoredTimestamp.s).t = "num"
    /\ now - parseInt(StoredTimestamp.s).n = 15 * 60 * 1000 - 1

\* A failure case of the fetch, as the specification lists them: a non-2xx
\* response, a body that is not JSON, a price field that is missing, not a
\* number or not positive.  (The network exception is RejectStep.)
IsPositiveNumber(v) == v.t = "num" /\ v.n > 0

FailureResponse(r) ==
    \/ ~r.ok
    \/ r.body.kind # "object"
    \/ ~IsPositiveNumber(r.body.price)

FailedFetchStep == RejectStep \/ (JsonSettleStep /\ FailureResponse(response))

\* C2: in every failure case, once the fetch settles sharePrice is the
\* fallback constant, priceError is set, and sharePrice is not the value it
\* had before the fetch.
C2_FailureSetsFallback ==
    [][ FailedFetchStep
            => /\ sharePrice' = FallbackPrice
               /\ priceError' = PriceErrorMessage
               /\ sharePrice' # sharePrice ]_vars

\* C3: a response whose price field is not a number greater than 0 is a
\* failure: it is never stored as the share price nor written to the cache.
C3_OnlyPositiveNumbersSucceed ==
    [][ (JsonSettleStep /\ response.ok /\ response.body.kind = "object"
            /\ ~IsPositiveNumber(response.body.price))
            => /\ priceSource' = "fallback"
               /\ sharePrice' = FallbackPrice
               /\ priceError' = PriceErrorMessage
               /\ localStorage' = localStorage ]_vars

\* The cache read yields 'absent': a key is missing, or its text cannot be
\* parsed as a number.
EntryAbsent ==
    \/ StoredPrice.t # "str"
    \/ StoredTimestamp.t # "str"
    \/ parseFloat(StoredPrice.s).t # "num"
    \/ parseInt(StoredTimestamp.s).t # "num"

\* C4: when the cache read yields 'absent', the load starts a fetch and the
\* stored text is not used as the share price.
C4_AbsentEntryTriggersFetch ==
    [][ (LoadStep /\ EntryAbsent)
            => /\ pc' = "awaitFetch"
               /\ fetchCalls' = fetchCalls + 1
               /\ priceSource' = "initial"
               /\ sharePrice' = sharePrice ]_vars

\* C5: a load that finds an expired entry starts a fetch exactly as a load
\* that finds none, and sharePrice keeps its initial value (it is never set
\* from the cache) from the load until the fetch settles.
C5_ExpiredEntryIsNotShown ==
    /\ [][ (LoadStep /\ BothItemsHoldText /\ StoredAgeAtLeast(ClaimedThreshold))
              => /\ pc' = "awaitFetch"
                 /\ fetchCalls' = fetchCalls + 1
                 /\ isPriceLoading' = TRUE
                 /\ priceError' = NoError
                 /\ sharePrice' = InitialSharePrice
                 /\ priceSource' = "initial" ]_vars
    /\ [](pc \in {"awaitFetch", "awaitJson"}
              => sharePrice = InitialSharePrice /\ priceSource = "initial")
    /\ [][ (pc \in {"awaitFetch", "awaitJson"} /\ pc' = "settled")
              => priceSource' \in {"network", "fallback"} ]_vars

\* A fetch is in flight after a load that found a price stored more than
\* 24 hours ago.
C5_Witness ==
    /\ pc = "awaitFetch"
    /\ BothItemsHoldText
    /\ parseFloat(StoredPrice.s) = Num(265, 10)
    /\ StoredAgeAtLeast(1440)
    /\ sharePrice = InitialSharePrice

\* C6: one load makes at most one network call: none when the cached entry
\* is valid, exactly one when it is absent or expired, and none after the
\* load decision (no retry).
C6_AtMostOneCallPerLoad ==
    /\ [](fetchCalls <= 1)
    /\ [][ LoadStep
              => fetchCalls' = IF ~EntryAbsent /\ StoredAgeBelow(ClaimedThreshold)
                               THEN 0 ELSE 1 ]_vars
    /\ [][ (pc # "init" /\ pc' # "init") => fetchCalls' = fetchCalls ]_vars

\* C7: a load that finds a valid entry sets sharePrice to the cached price
\* and the loading flag to false, leaves the error unset and makes no
\* network call; this stays so until the user edits the price.
C7_ValidEntryIsUsedWithoutFetch ==
    /\ [][ (LoadStep /\ BothItemsHoldText /\ StoredAgeBelow(ClaimedThreshold))
              => /\ sharePrice' = parseFloat(StoredPrice.s)
                 /\ (StoredPrice.s = Chars26_5 => sharePrice' = Num(53, 2))
                 /\ isPriceLoading' = FALSE
                 /\ priceError' = NoError
                 /\ fetchCalls' = 0
                 /\ pc' = "settled" ]_vars
    /\ [](priceSource = "cache"
              => ~isPriceLoading /\ priceError = NoError /\ fetchCalls = 0)

\* A load used the stored price 26.5.
C7_Witness ==
    /\ priceSource = "cache"
    /\ sharePrice = Num(53, 2)
    /\ ~isPriceLoading
    /\ priceError = NoError
    /\ fetchCalls = 0

AllPositive(periods) ==
    /\ JsGt(periods.annually, Whole(0))
    /\ JsGt(periods.quarterly, Whole(0))
    /\ JsGt(periods.monthly, Whole(0))
    /\ JsGt(periods.daily, Whole(0))

\* C8: a failed fetch leaves the fallback price and the yield computed from
\* it; and while the price is the fallback, the yield is the one computed
\* from it and, for a positive investment (and a positive annualized
\* dividend), none of the four incomes is 0.
C8_FailureYieldsFromFallback ==
    /\ [][ FailedFetchStep
              => /\ priceSource' = "fallback"
                 /\ dividendYield' =
                       NewYield(AnnualDividendPerShare(yieldMethod), FallbackPrice) ]_vars
    /\ [](priceSource = "fallback"
              => /\ dividendYield =
                       NewYield(AnnualDividendPerShare(yieldMethod), FallbackPrice)
                 /\ (JsGt(investment, Whole(0))
                       /\ JsGt(AnnualDividendPerShare(yieldMethod), Whole(0))
                          => AllPositive(calculateDividends)))

\* C9: once the effects have run, the yield is 0 whenever the share price
\* is a number <= 0 or the annualized per-share dividend is 0.
C9_YieldZeroForNonPositivePrice ==
    (pc # "init"
        /\ (\/ (sharePrice.t = "num" /\ sharePrice.n <= 0)
            \/ AnnualDividendPerShare(yieldMethod) = Whole(0)))
        => dividendYield = Whole(0)

\* C10: with the Forward method and a positive price, the yield is
\* (4 x the first entry of the full history) / price x 100, whether or not
\* that entry is dated after today; with an empty history the yield is 0.
\* (Cross-multiplied: yield n/d, dividend a/b, price p/q.)
C10_ForwardUsesFirstEntry ==
    (pc # "init" /\ yieldMethod = "forward")
        => /\ (Len(dividendHistory) > 0 /\ IsPositiveNumber(sharePrice))
                => dividendYield.t = "num"
                   /\ dividendYield.n * dividendHistory[1].dividend.d * sharePrice.n
                        = dividendYield.d * 400 * dividendHistory[1].dividend.n
                            * sharePrice.d
           /\ (Len(dividendHistory) = 0 => dividendYield = Whole(0))

\* The Forward yield at the fallback price 27, computed from the newest
\* entry 0.26 while that entry is dated after today: 4 * 0.26 / 27 * 100.
C10_Witness ==
    /\ pc = "settled"
    /\ yieldMethod = "forward"
    /\ Len(dividendHistory) > 0
    /\ ~DateLe(dividendHistory[1].date, today)
    /\ sharePrice = Whole(27)
    /\ dividendYield = Num(104, 27)

\* The sum of the dividends of the first four entries of xs.
SumOfFirstFour(xs) ==
    NumAdd(NumAdd(xs[1].dividend, xs[2].dividend),
           NumAdd(xs[3].dividend, xs[4].dividend))

\* The entries of the history whose date is not after today, newest first.
PaidEntries == SelectSeq(dividendHistory, LAMBDA e : DateLe(e.date, today))

\* yield = annual / price * 100, cross-multiplied.
YieldIsOf(annual, price) ==
    /\ dividendYield.t = "num"
    /\ dividendYield.n * annual.d * price.n
          = dividendYield.d * 100 * annual.n * price.d

\* C11: with the TTM method (and a positive price) the yield is that of the
\* sum of the 4 most recent entries dated not after today; when fewer than 4
\* such entries exist the yield is 0, and no error is raised.
C11_TtmSumsFourPaid ==
    (pc # "init" /\ yieldMethod = "ttm")
        => /\ (Len(PaidEntries) >= 4 /\ IsPositiveNumber(sharePrice))
                => YieldIsOf(SumOfFirstFour(PaidEntries), sharePrice)
           /\ (Len(PaidEntries) < 4 => dividendYield = Whole(0))

\* The part of C11 that the code meets: the annualized dividend of the TTM
\* method, and a yield of 0 with fewer than 4 paid entries whenever the
\* price the effect last ran with was positive.
C11_TtmWithPositivePrice ==
    (pc # "init" /\ yieldMethod = "ttm" /\ IsPositiveNumber(sharePrice))
        => /\ Len(PaidEntries) >= 4
                => YieldIsOf(SumOfFirstFour(PaidEntries), sharePrice)
           /\ Len(PaidEntries) < 4 => dividendYield = Whole(0)

NoIncome ==
    [annually |-> Whole(0), quarterly |-> Whole(0),
     monthly |-> Whole(0), daily |-> Whole(0)]

\* The reference projection of an investment a/b at a yield of c/d percent:
\* annually a*c / (b*d*100), and its flat fractions 1/4, 1/12 and 1/365.
ProjectReference(inv, yld) ==
    IF inv.n <= 0 \/ yld.n <= 0 THEN NoIncome
    ELSE [annually |-> Num(inv.n * yld.n, inv.d * yld.d * 100),
          quarterly |-> Num(inv.n * yld.n, inv.d * yld.d * 100 * 4),
          monthly |-> Num(inv.n * yld.n, inv.d * yld.d * 100 * 12),
          daily |-> Num(inv.n * yld.n, inv.d * yld.d * 100 * 365)]

SuccessfulFetchStep == JsonSettleStep /\ ~FailureResponse(response)

\* C13: every successful fetch writes the price and the time of the write
\* under the two keys; no other step (a failed fetch, a cache hit, a user
\* edit, a reload, the passing of time) changes the store; no step removes
\* an item.
C13_CacheWrittenOnSuccessOnly ==
    /\ [][ SuccessfulFetchStep
              => /\ StoredPrice'.t = "str" /\ StoredTimestamp'.t = "str"
                 /\ parseFloat(StoredPrice'.s) = response.body.price
                 /\ parseInt(StoredTimestamp'.s) = Whole(now) ]_vars
    /\ [][ ~SuccessfulFetchStep => localStorage' = localStorage ]_vars
    /\ [][ /\ (StoredPrice.t = "str" => StoredPrice'.t = "str")
           /\ (StoredTimestamp.t = "str" => StoredTimestamp'.t = "str") ]_vars

\* The part of C13 that the code meets: the store is written exactly by the
\* fetches the code takes for successful (data.price is truthy).
C13_CacheWrittenWhenPriceAccepted ==
    /\ [][ (JsonSettleStep /\ TryCompletes(response))
              => /\ StoredPrice'.t = "str" /\ StoredTimestamp'.t = "str"
                 /\ parseInt(StoredTimestamp'.s) = Whole(now) ]_vars
    /\ [][ ~(JsonSettleStep /\ TryCompletes(response))
              => localStorage' = localStorage ]_vars
    /\ [][ /\ (StoredPrice.t = "str" => StoredPrice'.t = "str")
           /\ (StoredTimestamp.t = "str" => StoredTimestamp'.t = "str") ]_vars

\* A user edit that changes the investment, the share price or the method.
UserEditStep ==
    /\ pc # "init"
    /\ loads' = loads
    /\ \/ investment' # investment
       \/ yieldMethod' # yieldMethod
       \/ priceSource' = "user" /\ sharePrice' # sharePrice

\* C14: after the load decision a user edit makes no network call, leaves
\* the fetch where it stands, leaves the loading and error flags and the
\* store unchanged, and (for a positive price) leaves the yield computed
\* from the edited price and method; the income is always that of the
\* current investment and yield.
C14_EditsRecomputeWithoutFetch ==
    /\ [][ UserEditStep
              => /\ fetchCalls' = fetchCalls
                 /\ pc' = pc
                 /\ response' = response
                 /\ isPriceLoading' = isPriceLoading
                 /\ priceError' = priceError
                 /\ localStorage' = localStorage
                 /\ (IsPositiveNumber(sharePrice')
                       => dividendYield' =
                             NewYield(AnnualDividendPerShare(yieldMethod'), sharePrice')) ]_vars
    /\ []((pc # "init" /\ IsPositiveNumber(sharePrice)
              /\ IsNum(investment) /\ investment.n > 0)
             => calculateDividends.annually
                   = NumDiv(NumMul(investment, dividendYield), Whole(100)))

\* After a failed fetch the user has set the price to 50, the investment to
\* 2500 and the method to TTM: the yield is 1.02 / 50 * 100 = 2.04, the
\* income 51 a year, the one call and the error notice are as they were.
C14_Witness ==
    /\ pc = "settled"
    /\ priceSource = "user"
    /\ sharePrice = Whole(50)
    /\ investment = Whole(2500)
    /\ yieldMethod = "ttm"
    /\ dividendYield = Num(51, 25)
    /\ calculateDividends.annually = Whole(51)
    /\ fetchCalls = 1
    /\ ~isPriceLoading
    /\ priceError = PriceErrorMessage

\* The income shown is computed from a yield of the placeholder price.
IncomeOfPlaceholderPrice ==
    /\ priceSource = "initial"
    /\ sharePrice = InitialSharePrice

\* C15: the fetch-or-cache decision is made once per load (after it, only a
\* new load brings the component back before its decision), and no user
\* edit precedes it: until the decision the investment, the method and the
\* price are the constructed ones, so that an income the user has influenced
\* is computed from the placeholder price only after the decision.
C15_DecisionPrecedesUserComputation ==
    /\ [][ LoadStep => loads' = loads ]_vars
    /\ [][ (pc # "init" /\ pc' = "init") => loads' = loads + 1 ]_vars
    /\ [][ (loads' = loads
              /\ (\/ investment' # investment
                  \/ yieldMethod' # yieldMethod
                  \/ priceSource' = "user"))
             => pc # "init" ]_vars
    /\ [](pc = "init"
             => /\ investment = InitialInvestment
                /\ yieldMethod = "forward"
                /\ IncomeOfPlaceholderPrice)
    /\ []((IncomeOfPlaceholderPrice /\ investment # InitialInvestment)
             => pc \in {"awaitFetch", "awaitJson"} /\ fetchCalls = 1)

\* While the fetch the decision started is in flight, the user has edited
\* the investment: the income is that of 2500 at the placeholder's yield
\* 1.04 / 78.50 * 100.
C15_Witness ==
    /\ pc = "awaitFetch"
    /\ fetchCalls = 1
    /\ IncomeOfPlaceholderPrice
    /\ investment = Whole(2500)
    /\ dividendYield = Num(208, 157)
    /\ calculateDividends.annually = Num(5200, 157)

\* C16: in every state the share price, the dividend yield and the four
\* incomes are numbers (not NaN, not undefined, not a string).
C16_AlwaysUsableNumbers ==
    /\ IsNum(sharePrice)
    /\ IsNum(dividendYield)
    /\ IsNum(calculateDividends.annually)
    /\ IsNum(calculateDividends.quarterly)
    /\ IsNum(calculateDividends.monthly)
    /\ IsNum(calculateDividends.daily)

\* The part of C16 that the code meets: the yield and the four incomes are
\* numbers in every state.
C16_YieldAndIncomeAreNumbers ==
    /\ IsNum(dividendYield)
    /\ IsNum(calculateDividends.annually)
    /\ IsNum(calculateDividends.quarterly)
    /\ IsNum(calculateDividends.monthly)
    /\ IsNum(calculateDividends.daily)

\* The US-Eastern weekday (0 = Sunday) and minute of the day at `now`.
EasternWeekday == EtMinuteOfWeek(now) \div MinutesPerDay
EasternMinuteOfDay == EtMinuteOfWeek(now) % MinutesPerDay

\* Monday to Friday, from 09:30 (minute 570) to 16:00 (minute 960) exclusive.
InTradingHours ==
    /\ EasternWeekday \in 1 .. 5
    /\ EasternMinuteOfDay >= 570
    /\ EasternMinuteOfDay < 960

\* C17: where the conversion to Eastern time works, isMarketOpen is true
\* exactly on Monday to Friday in [09:30, 16:00): true at 09:30, false at
\* 16:00 and at every time of Saturday and Sunday; and a load decides with
\* that answer (a price stored 15 minutes ago is used only with the market
\* closed).
C17_OpenMondayToFridayInHours ==
    /\ [](tzConversion = "ok"
            => /\ isMarketOpen <=> InTradingHours
               /\ (EasternWeekday \in 1 .. 5 /\ EasternMinuteOfDay = 570 => isMarketOpen)
               /\ (EasternMinuteOfDay = 960 => ~isMarketOpen)
               /\ (EasternWeekday \in {0, 6} => ~isMarketOpen))
    /\ [][ (LoadStep /\ tzConversion = "ok" /\ StoredAgeAtLeast(15) /\ StoredAgeBelow(1440))
              => (UsedCachedPrice <=> ~InTradingHours) ]_vars

\* A load on Monday at 09:30 Eastern found the market open and did not use
\* the price stored 15 minutes before.
C17_Witness ==
    /\ tzConversion = "ok"
    /\ EasternWeekday = 1
    /\ EasternMinuteOfDay = 570
    /\ isMarketOpen
    /\ pc = "awaitFetch"
    /\ now = StartMillis

\* C18: whenever the conversion to the exchange time zone fails, by throwing
\* or by giving an invalid date, isMarketOpen returns true, so that a load
\* takes the 15 minute duration and does not use a price stored 15 minutes
\* before.
C18_FailsOpen ==
    /\ [](tzConversion # "ok" => isMarketOpen)
    /\ [][ (LoadStep /\ tzConversion # "ok" /\ StoredAgeAtLeast(15))
              => pc' = "awaitFetch" /\ fetchCalls' = 1 ]_vars

\* The part of C18 that the code meets: a conversion that throws is answered
\* with true.
C18_FailsOpenWhenThrown ==
    /\ [](tzConversion = "throws" => isMarketOpen)
    /\ [][ (LoadStep /\ tzConversion = "throws" /\ StoredAgeAtLeast(15))
              => pc' = "awaitFetch" /\ fetchCalls' = 1 ]_vars

\* The sum of the dividends of the 5th to 8th entries of xs.
SumOfSecondFour(xs) ==
    NumAdd(NumAdd(xs[5].dividend, xs[6].dividend),
           NumAdd(xs[7].dividend, xs[8].dividend))

\* (last - prior) / prior * 100, for a prior sum that is not 0.
GrowthReference(last, prior) ==
    NumDiv(NumMul(NumSub(last, prior), Whole(100)), prior)

\* The text g is a number no further than half a hundredth from v.
IsRoundingOf(g, v) ==
    /\ IsNum(parseFloat(g.s))
    /\ 200 * Abs(NumSub(parseFloat(g.s), v).n) <= NumSub(parseFloat(g.s), v).d

\* C19: the growth is not available when fewer than 8 entries are dated not
\* after today (7 included) or when the sum of the 5th to 8th of them is 0;
\* otherwise it is (sum of the first 4 - sum of the next 4) / (sum of the
\* next 4) * 100, written with two decimals.
C19_GrowthOfLastFourOverPriorFour ==
    IF Len(PaidEntries) < 8 THEN dividendGrowth = NotAvailable
    ELSE IF SumOfSecondFour(PaidEntries) = Whole(0) THEN dividendGrowth = NotAvailable
    ELSE /\ dividendGrowth # NotAvailable
         /\ IsRoundingOf(dividendGrowth,
                         GrowthReference(SumOfFirstFour(PaidEntries),
                                         SumOfSecondFour(PaidEntries)))

\* The shipped history with every entry in the past: (1.02 - 0.94) / 0.94 *
\* 100 = 8.51, shown after the load.
C19_Witness ==
    /\ pc = "settled"
    /\ dividendHistory = ShippedHistory
    /\ Len(pastDividends) = 20
    /\ dividendGrowth = Str(<<"8", ".", "5", "1">>)

\* With exactly 7 paid entries the growth is not available.
C19_WitnessSeven ==
    /\ pc = "settled"
    /\ Len(pastDividends) = 7
    /\ dividendGrowth = NotAvailable

\* With a prior sum of 0 the growth is not available.
C19_WitnessZeroPrior ==
    /\ pc = "settled"
    /\ Len(pastDividends) = 8
    /\ SumOfSecondFour(pastDividends) = Whole(0)
    /\ dividendGrowth = NotAvailable

\* A falling dividend: (0.40 - 0.60) / 0.60 * 100 = -33.33.
C19_WitnessDecline ==
    /\ pc = "settled"
    /\ dividendHistory = DecliningHistory
    /\ dividendGrowth = Str(<<"-", "3", "3", ".", "3", "3">>)

\* The number of hundredths nearest to the positive number v.
NearestHundredths(v) == (200 * v.n + v.d) \div (2 * v.d)

\* C20: with the shipped history, price 78.50, the Forward method and
\* investment 10000, once the effects have run: the annualized dividend is
\* 1.04, the yield rounds to 1.32 percent, the incomes to 132.48 a year,
\* 33.12 a quarter, 11.04 a month and 0.36 a day.
C20_ShippedNumbersEndToEnd ==
    (pc # "init" /\ dividendHistory = ShippedHistory /\ sharePrice = Num(7850, 100)
        /\ yieldMethod = "forward" /\ investment = Whole(10000))
        => /\ dividendHistory[1].dividend = Num(26, 100)
           /\ AnnualDividendPerShare(yieldMethod) = Num(104, 100)
           /\ IsNum(dividendYield)
           /\ NearestHundredths(dividendYield) = 132
           /\ toFixed2(dividendYield) = <<"1", ".", "3", "2">>
           /\ NearestHundredths(calculateDividends.annually) = 13248
           /\ NearestHundredths(calculateDividends.quarterly) = 3312
           /\ NearestHundredths(calculateDividends.monthly) = 1104
           /\ NearestHundredths(calculateDividends.daily) = 36

\* The page shows the placeholder price 78.50 while the fetch is in flight:
\* the yield is 1.04 / 78.50 * 100 = 208/157 percent.
C20_Witness ==
    /\ pc = "awaitFetch"
    /\ dividendHistory = ShippedHistory
    /\ sharePrice = Num(7850, 100)
    /\ yieldMethod = "forward"
    /\ investment = Whole(10000)
    /\ dividendYield = Num(208, 157)
    /\ calculateDividends.annually = Num(20800, 157)

\* What the handler answers on each of its paths, as a function of whether
\* the key is set and of the data provider's answer: the key is no argument.
KeyFreeResult(keyIsSet, answer) ==
    CASE ~keyIsSet -> ErrorResult(500, "API key is not configured.")
      [] keyIsSet /\ answer.state = "rejected" ->
            ErrorResult(500, "An internal error occurred.")
      [] keyIsSet /\ answer.state = "resolved" /\ ~StatusOk(answer.status) ->
            IF answer.textFails
            THEN ErrorResult(500, "An internal error occurred.")
            ELSE ErrorResult(answer.status, "Failed to fetch price from data provider.")
      [] keyIsSet /\ answer.state = "resolved" /\ StatusOk(answer.status) ->
            IF answer.kind # "object"
            THEN ErrorResult(500, "An internal error occurred.")
            ELSE IF IsPositiveNumber(answer.c)
                 THEN Result(200, "application/json", answer.c, "none")
                 ELSE ErrorResult(500, "Received invalid price data.")

KeyIsSet == apiKey.t = "str" /\ apiKey.s # <<>>

\* C21: on every path (key missing, upstream error, invalid data, exception,
\* success) the status, headers and body the handler returns are determined
\* by whether the key is set and by the data provider's answer, not by the
\* value of the key, which goes only into the url of the upstream request.
C21_ResponseIndependentOfKey ==
    /\ handlerPc = "returned" => handlerResult = KeyFreeResult(KeyIsSet, upstream)
    /\ handlerPc # "returned" => handlerResult = NoResult
    /\ requestedUrl # NoUrl => requestedUrl.token = apiKey.s

\* With the key k2 set, the upstream request (which carried the key) was
\* rejected, and the handler answered with its fixed internal-error body.
C21_Witness ==
    /\ handlerPc = "returned"
    /\ apiKey = Str(KeyB)
    /\ requestedUrl.token = KeyB
    /\ upstream.state = "rejected"
    /\ handlerResult = ErrorResult(500, "An internal error occurred.")

\* The upstream call succeeded with a current price that is a number > 0.
UpstreamSucceeded ==
    /\ KeyIsSet
    /\ upstream.state = "resolved"
    /\ StatusOk(upstream.status)
    /\ upstream.kind = "object"
    /\ IsPositiveNumber(upstream.c)

\* C22: the handler returns status 200 with the body {price} if and only if
\* the upstream call succeeded with a price that is a number > 0; on every
\* other path it returns a body with an error field and a status that is
\* not 2xx; every invocation ends with a returned object.
C22_SuccessIffPositivePrice ==
    /\ handlerPc = "returned"
          => /\ (handlerResult.statusCode = 200 <=> UpstreamSucceeded)
             /\ (UpstreamSucceeded
                   => /\ handlerResult.body.price = upstream.c
                      /\ handlerResult.body.error = "none"
                      /\ handlerResult.contentType = "application/json")
             /\ (~UpstreamSucceeded
                   => /\ handlerResult.body.error # "none"
                      /\ handlerResult.body.price = Undefined
                      /\ ~StatusOk(handlerResult.statusCode))
    /\ handlerPc \in {"idle", "awaitFetch", "awaitText", "awaitJson", "returned"}

\* The data provider answered 200 with c = 26.5 and the handler returned
\* 200 with the body {price: 26.5}.
C22_Witness ==
    /\ handlerPc = "returned"
    /\ upstream.status = 200
    /\ upstream.c = Num(265, 10)
    /\ handlerResult = Result(200, "application/json", Num(265, 10), "none")

\* The annualized per-share dividend of a method, from the history and the
\* date: 4 x the newest entry (Forward), the sum of the 4 newest entries
\* dated not after today (TTM), 0 without enough entries.
ReferenceAnnual(method) ==
    IF method = "forward"
    THEN IF Len(dividendHistory) = 0 THEN Whole(0)
         ELSE Num(4 * dividendHistory[1].dividend.n, dividendHistory[1].dividend.d)
    ELSE IF Len(PaidEntries) < 4 THEN Whole(0)
         ELSE SumOfFirstFour(PaidEntries)

\* C23: in every settled state with a share price that is a number > 0, the
\* yield is (annualized dividend of the current method / current price) * 100.
C23_YieldIsCurrent ==
    (pc = "settled" /\ IsPositiveNumber(sharePrice))
        => YieldIsOf(ReferenceAnnual(yieldMethod), sharePrice)

\* After a fetch that returned 26.5 the user selected TTM: the yield is
\* 1.02 / 26.5 * 100 = 204/53.
C23_Witness ==
    /\ pc = "settled"
    /\ priceSource = "network"
    /\ sharePrice = Num(265, 10)
    /\ yieldMethod = "ttm"
    /\ Len(pastDividends) = 20
    /\ dividendYield = Num(204, 53)

\* C24: whenever the store changes, both keys are written, with the price
\* and the time of the fetch that settles in that step, so that the stored
\* price and the stored timestamp always come from the same fetch.
C24_BothKeysWrittenTogether ==
    [][ localStorage' # localStorage
          => /\ JsonSettleStep
             /\ StoredPrice' = Str(toString(response.body.price))
             /\ StoredTimestamp' = Str(toString(Whole(now))) ]_vars

C26_NetworkFirst ==
    /\ [](pc = "awaitJson"
            => /\ network.state \in {"resolved", "rejected"}
               /\ (network.state = "resolved"
                     => response = network.response /\ responseOrigin = "network")
               /\ (network.state = "rejected"
                     => response = swCache /\ responseOrigin = "cache"))
    /\ [][ (pc = "awaitFetch" /\ pc' \in {"awaitJson", "settled"})
             => /\ network'.state \in {"resolved", "rejected"}
                /\ (responseOrigin' = "cache"
                      => network'.state = "rejected" /\ response' = swCache) ]_vars

\* The network answered 500 while the cache held the 200 response of an
\* earlier visit: the page received the 500.
C26_Witness ==
    /\ pc = "awaitJson"
    /\ loads = 2
    /\ network.state = "resolved"
    /\ ~network.response.ok
    /\ response = network.response
    /\ responseOrigin = "network"

\* C27: the store is written (with a fresh timestamp) only with a price the
\* endpoint returned over the network during that same fetch, never with a
\* response replayed from the worker's cache.
C27_OnlyNetworkPricesAreStored ==
    [][ (JsonSettleStep /\ localStorage' # localStorage)
          => responseOrigin = "network" /\ network.state = "resolved" ]_vars


\* The load decision or the fetch of this load is still pending.
LoadPending == pc \in {"init", "awaitFetch", "awaitJson"}

\* C28: the share price input is disabled in every state where the load
\* decision or the fetch is pending, and within one load no write of the
\* load (cached, fetched or fallback price) follows an edit of the user: a
\* price the user typed is replaced only by another edit of the user.
C28_UserPriceIsNeverOverwritten ==
    /\ [](LoadPending => isPriceLoading /\ priceSource # "user")
    /\ [][ (priceSource = "user" /\ loads' = loads)
             => /\ priceSource' = "user"
                /\ (sharePrice' # sharePrice => pc = "settled" /\ ~isPriceLoading) ]_vars

\* The fetch settled with 26.5 and the user then typed 50.
C28_Witness ==
    /\ pc = "settled"
    /\ priceSource = "user"
    /\ fetchCalls = 1
    /\ sharePrice = Whole(50)
    /\ StoredPrice = Str(Chars26_5)


Completed(effect) ==
    /\ startTime[effect] >= 0
    /\ lastFrame[effect] - startTime[effect] >= Duration

\* C30: once a frame is delivered with the duration elapsed since the start
\* of the animation of the latest value, the displayed number is exactly
\* that value and nothing of the ticker is pending; a run of the effect that
\* has been superseded holds no timeout and no frame and never calls animate
\* again; and each run calls onComplete once when its animation completes,
\* and not otherwise.
C30_TickerConverges ==
    /\ []((~effectPending /\ generation >= 1 /\ Completed(generation))
            => displayValue = value /\ frames = {} /\ timeouts = {})
    /\ [](/\ timeouts \subseteq {generation}
          /\ \A f \in frames : f.effect = generation /\ f.id = animationId)
    /\ [][ \A e \in Effects : lastFrame'[e] # lastFrame[e] => e = generation ]_vars
    /\ [](\A e \in Effects : onCompleteCalls[e] = IF Completed(e) THEN 1 ELSE 0)

\* The value changed from 348 to 87 while the first animation was running
\* (one frame, at 40% of the duration, had shown 348 * 544/625); the second
\* animation has completed and 87 is displayed.
C30_Witness ==
    /\ generation = 2
    /\ ~effectPending
    /\ lastFrame[1] - startTime[1] = 400
    /\ ~Completed(1)
    /\ onCompleteCalls[1] = 0
    /\ Completed(2)
    /\ onCompleteCalls[2] = 1
    /\ value = Whole(87)
    /\ displayValue = Whole(87)

=============================================================================
